---- MODULE Spec2Model ----
(***************************************************************************)
(* Bump allocators of Chapter7MemoryManagement:                            *)
(*   - the fixed-capacity MemoryPool of DynamicMemoryAllocation.c,         *)
(*   - the MemoryArena of StackVHeap.c,                                    *)
(*   - the static-buffer pool (memory_pool / pool_index) of MemoryLeaks.c, *)
(*   - the chained MemoryPool (blocks of POOL_BLOCK_SIZE linked by next)   *)
(*     of DynamicMemoryAllocation.c and MemoryLeaks.c.                     *)
(* Sizes are size_t values: every sum the code computes is taken modulo    *)
(* 2^SIZE_BITS.  A pointer is a pair (base buffer, byte offset); base 0 is *)
(* the null pointer.                                                       *)
(*                                                                         *)
(* The other programs of the repository, each with a specification of its  *)
(* own: the allocation tracker, safe_strcpy, the reference counter, the    *)
(* ResourceManager, the Stack, custom_alloc, the circular buffer,          *)
(* flood_fill and reverse_string.                                          *)
(***************************************************************************)
EXTENDS Integers, Sequences, FiniteSets

VARIABLES
    prog,        \* which allocator, or which other program, this run exercises
    pool,        \* MemoryPool* pool of DynamicMemoryAllocation.c (fixed capacity)
    arena,       \* MemoryArena game_arena of StackVHeap.c
    pool_index,  \* static size_t pool_index of MemoryLeaks.c
    blocks,      \* the MemoryPool headers of the chained pool, by creation order
    chain,       \* MemoryPool* pool of the chained variant: head block, 0 = NULL
    ranges,      \* the ranges handed out since create / reset, oldest first
    ret,         \* what the last call returned and what it saw
    walk,        \* the loop of the chained destroy_pool: its state and its local pool
    threads,     \* the calls in flight when several threads share one allocator
    tracker,     \* the allocation tracker of MemoryLeaks.c: alloc_tracker, alloc_count, the heap
    copy,        \* one call of safe_strcpy: dest, src, dest_size and what it returned
    handle,      \* a RefCounted object and the caller's pointer to it
    manager,     \* the ResourceManager of MemoryLeaks.c: resources, count, capacity
    stack,       \* the Stack of Ch1.c: items, top, capacity
    slots,       \* custom_alloc of PointerArithmetic.c: memory_pool, allocations, allocation_count
    ring,        \* the circular buffer of Ch2.c: buffer, write_index, read_index
    screen,      \* flood_fill of recursion.c: the screen and the pending recursive calls
    rev          \* reverse_string of recursion.c: its static buffer and index

\* the state of the bump allocators
allocs == <<pool, arena, pool_index, blocks, chain, ranges, ret, walk, threads>>
\* the state of the other programs
apps == <<tracker, copy, handle, manager, stack, slots, ring, screen, rev>>

vars == <<prog, allocs, apps>>

\* what an action of one program leaves alone: every other program
but_tracker == <<prog, allocs, copy, handle, manager, stack, slots, ring, screen, rev>>
but_copy == <<prog, allocs, tracker, handle, manager, stack, slots, ring, screen, rev>>
but_handle == <<prog, allocs, tracker, copy, manager, stack, slots, ring, screen, rev>>
but_manager == <<prog, allocs, tracker, copy, handle, stack, slots, ring, screen, rev>>
but_stack == <<prog, allocs, tracker, copy, handle, manager, slots, ring, screen, rev>>
but_slots == <<prog, allocs, tracker, copy, handle, manager, stack, ring, screen, rev>>
but_ring == <<prog, allocs, tracker, copy, handle, manager, stack, slots, screen, rev>>
but_screen == <<prog, allocs, tracker, copy, handle, manager, stack, slots, ring, rev>>
but_rev == <<prog, allocs, tracker, copy, handle, manager, stack, slots, ring, screen>>

---------------------------------------------------------------------------
(* Bounds of the model *)

\* width of size_t in bits (the C standard allows 16)
SIZE_BITS == 16
\* number of ranges recorded before allocation stops
MaxAllocs == 3
\* number of blocks the chained pool may create
MaxBlocks == 3
MaxThreads == 2
\* number of calls a run of one of the other programs makes
MaxCalls == 4
\* number of writes, and of reads, in a run of the circular buffer
MaxWrites == 10
\* largest capacity handed to createStack
MaxCapacity == 3
\* width of int in bits (the C standard allows 16)
INT_BITS == 16
\* length of the longest source string
MaxLen == 3

(* Program constants *)
POOL_SIZE == 1024
POOL_BLOCK_SIZE == 1024
MAX_ALLOCS == 1000
REV_BYTES == 100
\* int screen[5][5]; flood_fill(screen, 5, 5, ...)
ROWS == 5
COLS == 5
\* the pending calls a run may pile up before it is cut off
StackLimit == ROWS * COLS + 2
BUFFER_SIZE == 8
SLOT_POOL_BYTES == 1000
SLOT_COUNT == 10
SLOT_BYTES == 100

SIZE_MOD == 2 ^ SIZE_BITS
SIZE_MAX == SIZE_MOD - 1

\* request sizes: zero, small, exact fits, oversized, and close to SIZE_MAX
SizeInputs == {0, 1, 4, 10, 1000, 1024, 2000, SIZE_MAX - 4}
\* capacities handed to create_pool / create_arena
Capacities == {0, 16, 64}
\* alignments a caller may need (powers of two)
Alignments == {1, 2, 4, 8}

Progs == {"pool", "arena", "static", "chain"}

\* request sizes of the threads that share the fixed-capacity pool
ThreadSizes == {4, 10, SIZE_MAX - 4}
\* request sizes of the threads that share the chained pool
ChainSizes == {10, 1000}

---------------------------------------------------------------------------
(* Pointers and size_t arithmetic *)

\* a program that this run does not exercise
Off == [state |-> "off"]

\* none of the other programs runs
AppsOff ==
    /\ tracker = Off
    /\ copy = Off
    /\ handle = Off
    /\ manager = Off
    /\ stack = Off
    /\ slots = Off
    /\ ring = Off
    /\ screen = Off
    /\ rev = Off

Ptr(base, off) == [base |-> base, off |-> off]
NULL == Ptr(0, 0)

\* size_t addition
SizeAdd(a, b) == (a + b) % SIZE_MOD

\* the single buffer of a fixed-capacity allocator
BUF == 1

NoRet == [op |-> "none", size |-> 0, ptr |-> NULL, used_before |-> 0,
          prev |-> "none", prev_used |-> 0, head_before |-> 0, grew |-> FALSE,
          oom |-> FALSE]

Returned(op, size, ptr, used_before, head_before, grew, oom) ==
    [op |-> op, size |-> size, ptr |-> ptr, used_before |-> used_before,
     prev |-> ret.op, prev_used |-> ret.used_before, head_before |-> head_before,
     grew |-> grew, oom |-> oom]

Range(ptr, size) == [base |-> ptr.base, off |-> ptr.off, size |-> size]

\* the threads that share one allocator, and what each of them starts as
Threads == 1..MaxThreads
Idle == [pc |-> "idle", size |-> 0, ptr |-> NULL, tmp |-> 0, new |-> 0]
NoThreads == [lock |-> 0, th |-> [t \in Threads |-> Idle]]

\* destroy_pool has not been called
NoWalk == [state |-> "idle", cur |-> 0]

---------------------------------------------------------------------------
(* Initial state: nothing created; the static pool_index is 0 *)

Init ==
    /\ prog \in Progs
    /\ pool = [state |-> "none", memory |-> 0, used |-> 0, capacity |-> 0]
    /\ arena = [state |-> "none", start |-> 0, size |-> 0, used |-> 0]
    /\ pool_index = 0
    /\ blocks = <<>>
    /\ chain = 0
    /\ ranges = <<>>
    /\ ret = NoRet
    /\ walk = NoWalk
    /\ threads = NoThreads
    /\ AppsOff

---------------------------------------------------------------------------
(* DynamicMemoryAllocation.c, fixed-capacity MemoryPool *)

\* MemoryPool* create_pool(size_t capacity)
create_pool ==
    /\ prog = "pool"
    /\ pool.state = "none"
    /\ \E capacity \in Capacities, hdr_ok \in BOOLEAN, mem_ok \in BOOLEAN :
          /\ pool' = IF hdr_ok
                       THEN [state |-> "live",
                             memory |-> IF mem_ok THEN BUF ELSE 0,
                             used |-> 0, capacity |-> capacity]
                       ELSE [pool EXCEPT !.state = "null"]
          /\ ret' = Returned("create", capacity, NULL, 0, 0, FALSE, ~hdr_ok)
    /\ UNCHANGED <<walk, threads, prog, apps, arena, pool_index, blocks, chain, ranges>>

\* a capacity check that forgets the bytes already handed out
PoolFullIgnoresUsed(used, size, capacity) == size > capacity

\* if (pool->used + size > pool->capacity) return NULL;
PoolFull(used, size, capacity) == SizeAdd(used, size) > capacity

\* void* pool_alloc(MemoryPool* pool, size_t size)
pool_alloc ==
    /\ prog = "pool"
    /\ pool.state = "live"
    /\ Len(ranges) < MaxAllocs
    /\ \E size \in SizeInputs :
          IF PoolFull(pool.used, size, pool.capacity)
            THEN /\ ret' = Returned("alloc", size, NULL, pool.used, 0, FALSE, FALSE)
                 /\ UNCHANGED <<pool, ranges>>
            ELSE LET ptr == Ptr(pool.memory, pool.used) IN
                 /\ pool' = [pool EXCEPT !.used = SizeAdd(pool.used, size)]
                 /\ ranges' = Append(ranges, Range(ptr, size))
                 /\ ret' = Returned("alloc", size, ptr, pool.used, 0, FALSE, FALSE)
    /\ UNCHANGED <<walk, threads, prog, apps, arena, pool_index, blocks, chain>>

\* void destroy_pool(MemoryPool* pool)
destroy_pool ==
    /\ prog = "pool"
    /\ pool.state = "live"
    /\ pool' = [pool EXCEPT !.state = "freed"]
    /\ ranges' = <<>>
    /\ ret' = Returned("destroy", 0, NULL, pool.used, 0, FALSE, FALSE)
    /\ UNCHANGED <<walk, threads, prog, apps, arena, pool_index, blocks, chain>>

\* what a read of a size_t field of the freed header may yield: the value it
\* held when it was freed, or whatever the heap has put there since
FreedWord(stale) == {stale, 0}

\* pool_alloc(pool, size) after destroy_pool(pool): pool->used, pool->capacity
\* and pool->memory are read from freed memory
pool_alloc_after_destroy ==
    /\ prog = "pool"
    /\ pool.state = "freed"
    /\ \E size \in SizeInputs, used \in FreedWord(pool.used),
          capacity \in FreedWord(pool.capacity), memory \in {pool.memory, 0} :
          ret' = Returned("alloc", size,
                          IF PoolFull(used, size, capacity)
                            THEN NULL ELSE Ptr(memory, used),
                          used, 0, FALSE, FALSE)
    /\ UNCHANGED <<walk, threads, prog, apps, pool, arena, pool_index, blocks, chain, ranges>>

---------------------------------------------------------------------------
(* StackVHeap.c, MemoryArena *)

\* MemoryArena create_arena(size_t size)
create_arena ==
    /\ prog = "arena"
    /\ arena.state = "none"
    /\ \E size \in Capacities, mem_ok \in BOOLEAN :
          /\ arena' = [state |-> "live", start |-> IF mem_ok THEN BUF ELSE 0,
                       size |-> size, used |-> 0]
          /\ ret' = Returned("create", size, NULL, 0, 0, FALSE, FALSE)
    /\ UNCHANGED <<walk, threads, prog, apps, pool, pool_index, blocks, chain, ranges>>

\* if (arena->used + size > arena->size) return NULL;
ArenaFull(used, size, capacity) == SizeAdd(used, size) > capacity

\* void* arena_alloc(MemoryArena* arena, size_t size)
arena_alloc ==
    /\ prog = "arena"
    /\ arena.state \in {"live", "destroyed"}
    /\ Len(ranges) < MaxAllocs
    /\ \E size \in SizeInputs :
          IF ArenaFull(arena.used, size, arena.size)
            THEN /\ ret' = Returned("alloc", size, NULL, arena.used, 0, FALSE, FALSE)
                 /\ UNCHANGED <<arena, ranges>>
            ELSE LET ptr == Ptr(arena.start, arena.used) IN
                 /\ arena' = [arena EXCEPT !.used = SizeAdd(arena.used, size)]
                 /\ ranges' = Append(ranges, Range(ptr, size))
                 /\ ret' = Returned("alloc", size, ptr, arena.used, 0, FALSE, FALSE)
    /\ UNCHANGED <<walk, threads, prog, apps, pool, pool_index, blocks, chain>>

\* void destroy_arena(MemoryArena* arena)
destroy_arena ==
    /\ prog = "arena"
    /\ arena.state = "live"
    /\ arena' = [state |-> "destroyed", start |-> 0, size |-> 0, used |-> 0]
    /\ ranges' = <<>>
    /\ ret' = Returned("destroy", 0, NULL, arena.used, 0, FALSE, FALSE)
    /\ UNCHANGED <<walk, threads, prog, apps, pool, pool_index, blocks, chain>>

---------------------------------------------------------------------------
(* MemoryLeaks.c, static memory_pool[POOL_SIZE] *)

\* if (pool_index + size > POOL_SIZE) return NULL;
StaticFull(used, size) == SizeAdd(used, size) > POOL_SIZE

\* void* pool_alloc(size_t size) on the static buffer
static_pool_alloc ==
    /\ prog = "static"
    /\ Len(ranges) < MaxAllocs
    /\ \E size \in SizeInputs :
          IF StaticFull(pool_index, size)
            THEN /\ ret' = Returned("alloc", size, NULL, pool_index, 0, FALSE, FALSE)
                 /\ UNCHANGED <<pool_index, ranges>>
            ELSE LET ptr == Ptr(BUF, pool_index) IN
                 /\ pool_index' = SizeAdd(pool_index, size)
                 /\ ranges' = Append(ranges, Range(ptr, size))
                 /\ ret' = Returned("alloc", size, ptr, pool_index, 0, FALSE, FALSE)
    /\ UNCHANGED <<walk, threads, prog, apps, pool, arena, blocks, chain>>

\* a reset that leaves the index where it was
ResetIndexKept(used) == used

\* pool_index = 0;
ResetIndex(used) == 0

\* void pool_reset()
pool_reset ==
    /\ prog = "static"
    /\ pool_index' = ResetIndex(pool_index)
    /\ ranges' = <<>>
    /\ ret' = Returned("reset", 0, NULL, pool_index, 0, FALSE, FALSE)
    /\ UNCHANGED <<walk, threads, prog, apps, pool, arena, blocks, chain>>

---------------------------------------------------------------------------
(* DynamicMemoryAllocation.c / MemoryLeaks.c, chained MemoryPool *)

\* the block create_pool() builds: malloc(POOL_BLOCK_SIZE), used = 0, next = NULL
NewBlock(id, mem_ok) ==
    [memory |-> IF mem_ok THEN id ELSE 0, used |-> 0, next |-> 0,
     cap |-> POOL_BLOCK_SIZE, frees |-> 0]

\* MemoryPool* pool = create_pool();   (the caller's first block)
chain_create_pool ==
    /\ prog = "chain"
    /\ ret.op = "none"
    /\ \E hdr_ok \in BOOLEAN, mem_ok \in BOOLEAN :
          /\ IF hdr_ok
               THEN /\ blocks' = Append(blocks, NewBlock(Len(blocks) + 1, mem_ok))
                    /\ chain' = Len(blocks) + 1
               ELSE UNCHANGED <<blocks, chain>>
          /\ ret' = Returned("create", POOL_BLOCK_SIZE, NULL, 0, chain, hdr_ok, ~hdr_ok)
    /\ UNCHANGED <<walk, threads, prog, apps, pool, arena, pool_index, ranges>>

\* a grow that forgets to link the old head behind the new block
LinkNextDropped(head, new) == 0

\* a grow that links after installing: the new block points at itself
LinkNextSelf(head, new) == new

\* new_pool->next = *pool;
LinkNext(head, new) == head

\* if (!*pool || (*pool)->used + size > POOL_BLOCK_SIZE)
NeedBlock(head, used, size) ==
    head = 0 \/ SizeAdd(used, size) > POOL_BLOCK_SIZE

\* a bump that takes the bytes off the block's capacity as well
BumpShrinksCap(blk, size) ==
    [blk EXCEPT !.used = SizeAdd(blk.used, size), !.cap = blk.cap - size]

\* (*pool)->used += size;
Bump(blk, size) == [blk EXCEPT !.used = SizeAdd(blk.used, size)]

\* void* pool_alloc(MemoryPool** pool, size_t size)
chain_pool_alloc ==
    /\ prog = "chain"
    /\ ret.op \in {"create", "alloc"}
    /\ Len(ranges) < MaxAllocs
    /\ \E size \in SizeInputs, hdr_ok \in BOOLEAN, mem_ok \in BOOLEAN :
          LET used == IF chain = 0 THEN 0 ELSE blocks[chain].used IN
          IF NeedBlock(chain, used, size)
            THEN /\ Len(blocks) < MaxBlocks
                 /\ IF ~hdr_ok
                      THEN /\ ret' = Returned("alloc", size, NULL, used, chain, FALSE, TRUE)
                           /\ UNCHANGED <<blocks, chain, ranges>>
                      ELSE LET id == Len(blocks) + 1
                               nb == [NewBlock(id, mem_ok) EXCEPT !.next = LinkNext(chain, id)]
                               ptr == Ptr(nb.memory, nb.used)
                           IN
                           /\ blocks' = Append(blocks, Bump(nb, size))
                           /\ chain' = id
                           /\ ranges' = Append(ranges, Range(ptr, size))
                           /\ ret' = Returned("alloc", size, ptr, used, chain, TRUE, FALSE)
            ELSE LET ptr == Ptr(blocks[chain].memory, used) IN
                 /\ hdr_ok /\ mem_ok
                 /\ blocks' = [blocks EXCEPT ![chain] = Bump(blocks[chain], size)]
                 /\ ranges' = Append(ranges, Range(ptr, size))
                 /\ ret' = Returned("alloc", size, ptr, used, chain, FALSE, FALSE)
                 /\ UNCHANGED chain
    /\ UNCHANGED <<walk, threads, prog, apps, pool, arena, pool_index>>

RECURSIVE Chain(_, _)
\* the blocks the loop of destroy_pool visits, following next from p
Chain(p, fuel) ==
    IF p = 0 \/ fuel = 0 THEN {} ELSE {p} \cup Chain(blocks[p].next, fuel - 1)

\* destroy_pool(pool) is called: its parameter starts at the head
chain_destroy_pool ==
    /\ prog = "chain"
    /\ ret.op \in {"create", "alloc"}
    /\ walk.state = "idle"
    /\ walk' = [state |-> "walking", cur |-> chain]
    /\ ranges' = <<>>
    /\ ret' = Returned("destroy", 0, NULL, 0, chain, FALSE, FALSE)
    /\ UNCHANGED <<threads, prog, apps, pool, arena, pool_index, blocks, chain>>

\* one pass of while (pool) { next = pool->next; free(pool->memory);
\* free(pool); pool = next; }
chain_destroy_step ==
    /\ prog = "chain"
    /\ walk.state = "walking"
    /\ IF walk.cur = 0
         THEN /\ walk' = [walk EXCEPT !.state = "done"]
              /\ UNCHANGED blocks
         ELSE /\ blocks[walk.cur].frees < 2
              /\ blocks' = [blocks EXCEPT ![walk.cur].frees = @ + 1]
              /\ walk' = [walk EXCEPT !.cur = blocks[walk.cur].next]
    /\ UNCHANGED <<threads, prog, apps, pool, arena, pool_index, chain, ranges, ret>>

---------------------------------------------------------------------------

Next ==
    \/ create_pool
    \/ pool_alloc
    \/ destroy_pool
    \/ pool_alloc_after_destroy
    \/ create_arena
    \/ arena_alloc
    \/ destroy_arena
    \/ static_pool_alloc
    \/ pool_reset
    \/ chain_create_pool
    \/ chain_pool_alloc
    \/ chain_destroy_pool
    \/ chain_destroy_step

Spec == Init /\ [][Next]_vars

---------------------------------------------------------------------------
(* Several threads calling pool_alloc on one fixed-capacity MemoryPool.    *)
(* The statements of pool_alloc are separate steps; pool->used += size is  *)
(* a load and a store.  With prog = "locked" each call runs with a mutex   *)
(* held from before its first statement until after its last.              *)

InFlight == Cardinality({t \in Threads : threads.th[t].pc # "idle"})

\* the last statement of a call is done: release the mutex if one is held
Leave == IF prog = "locked" THEN "unlock" ELSE "idle"

SetThread(t, rec) == [threads EXCEPT !.th[t] = rec]

\* a thread calls pool_alloc(pool, size)
thr_call(t) ==
    /\ prog \in {"race", "locked"}
    /\ threads.th[t].pc = "idle"
    /\ Len(ranges) + InFlight < MaxAllocs
    /\ \E size \in ThreadSizes :
          threads' = SetThread(t, [Idle EXCEPT
                        !.pc = IF prog = "locked" THEN "lock" ELSE "check",
                        !.size = size])
    /\ UNCHANGED <<walk, prog, apps, pool, arena, pool_index, blocks, chain, ranges, ret>>

\* the mutex is taken
thr_lock(t) ==
    /\ prog = "locked"
    /\ threads.th[t].pc = "lock"
    /\ threads.lock = 0
    /\ threads' = [threads EXCEPT !.lock = t, !.th[t].pc = "check"]
    /\ UNCHANGED <<walk, prog, apps, pool, arena, pool_index, blocks, chain, ranges, ret>>

\* if (pool->used + size > pool->capacity) return NULL;
thr_check(t) ==
    /\ prog \in {"race", "locked"}
    /\ threads.th[t].pc = "check"
    /\ IF PoolFull(pool.used, threads.th[t].size, pool.capacity)
         THEN /\ threads' = SetThread(t, [threads.th[t] EXCEPT !.pc = Leave])
              /\ ret' = Returned("alloc", threads.th[t].size, NULL, pool.used,
                                 0, FALSE, FALSE)
         ELSE /\ threads' = SetThread(t, [threads.th[t] EXCEPT !.pc = "ptr"])
              /\ UNCHANGED ret
    /\ UNCHANGED <<walk, prog, apps, pool, arena, pool_index, blocks, chain, ranges>>

\* void* ptr = (char*)pool->memory + pool->used;
thr_ptr(t) ==
    /\ prog \in {"race", "locked"}
    /\ threads.th[t].pc = "ptr"
    /\ threads' = SetThread(t, [threads.th[t] EXCEPT
                      !.pc = "load", !.ptr = Ptr(pool.memory, pool.used)])
    /\ UNCHANGED <<walk, prog, apps, pool, arena, pool_index, blocks, chain, ranges, ret>>

\* pool->used += size;   (the read of pool->used)
thr_load(t) ==
    /\ prog \in {"race", "locked"}
    /\ threads.th[t].pc = "load"
    /\ threads' = SetThread(t, [threads.th[t] EXCEPT
                      !.pc = "store", !.tmp = pool.used])
    /\ UNCHANGED <<walk, prog, apps, pool, arena, pool_index, blocks, chain, ranges, ret>>

\* a store that writes one byte more than was asked for
StoreUsedPadded(tmp, size) == SizeAdd(tmp, size + 1)

\* pool->used += size;   (the value written back)
StoreUsed(tmp, size) == SizeAdd(tmp, size)

\* pool->used += size;   (the write of pool->used)   return ptr;
thr_store(t) ==
    /\ prog \in {"race", "locked"}
    /\ threads.th[t].pc = "store"
    /\ pool' = [pool EXCEPT !.used = StoreUsed(threads.th[t].tmp, threads.th[t].size)]
    /\ ranges' = Append(ranges, Range(threads.th[t].ptr, threads.th[t].size))
    /\ ret' = Returned("alloc", threads.th[t].size, threads.th[t].ptr,
                       threads.th[t].ptr.off, 0, FALSE, FALSE)
    /\ threads' = SetThread(t, [threads.th[t] EXCEPT !.pc = Leave])
    /\ UNCHANGED <<walk, prog, apps, arena, pool_index, blocks, chain>>

\* the mutex is released after the call has returned
thr_unlock(t) ==
    /\ prog = "locked"
    /\ threads.th[t].pc = "unlock"
    /\ threads.lock = t
    /\ threads' = [threads EXCEPT !.lock = 0, !.th[t].pc = "idle"]
    /\ UNCHANGED <<walk, prog, apps, pool, arena, pool_index, blocks, chain, ranges, ret>>

\* a pool that create_pool(capacity) has built, shared by idle threads
InitShared(p) ==
    /\ prog = p
    /\ \E capacity \in Capacities \ {0} :
          pool = [state |-> "live", memory |-> BUF, used |-> 0,
                  capacity |-> capacity]
    /\ arena = [state |-> "none", start |-> 0, size |-> 0, used |-> 0]
    /\ pool_index = 0
    /\ blocks = <<>>
    /\ chain = 0
    /\ ranges = <<>>
    /\ ret = NoRet
    /\ walk = NoWalk
    /\ threads = NoThreads
    /\ AppsOff

InitRace == InitShared("race")

NextRace ==
    \/ \E t \in Threads : thr_call(t)
    \/ \E t \in Threads : thr_check(t)
    \/ \E t \in Threads : thr_ptr(t)
    \/ \E t \in Threads : thr_load(t)
    \/ \E t \in Threads : thr_store(t)

SpecRace == InitRace /\ [][NextRace]_vars

InitLocked == InitShared("locked")

NextLocked ==
    \/ \E t \in Threads : thr_call(t)
    \/ \E t \in Threads : thr_lock(t)
    \/ \E t \in Threads : thr_check(t)
    \/ \E t \in Threads : thr_ptr(t)
    \/ \E t \in Threads : thr_load(t)
    \/ \E t \in Threads : thr_store(t)
    \/ \E t \in Threads : thr_unlock(t)

SpecLocked == InitLocked /\ [][NextLocked]_vars

---------------------------------------------------------------------------
(* Several threads calling the chained pool_alloc on one head pointer, with *)
(* nothing coordinating them: each statement of pool_alloc is one step.     *)

\* a thread calls pool_alloc(&pool, size)
cthr_call(t) ==
    /\ prog = "chainrace"
    /\ threads.th[t].pc = "idle"
    /\ Len(ranges) + InFlight < MaxAllocs
    /\ \E size \in ChainSizes :
          threads' = SetThread(t, [Idle EXCEPT !.pc = "check", !.size = size])
    /\ UNCHANGED <<walk, prog, apps, pool, arena, pool_index, blocks, chain, ranges, ret>>

\* if (*pool == NULL || (*pool)->used + size > POOL_BLOCK_SIZE)
cthr_check(t) ==
    /\ prog = "chainrace"
    /\ threads.th[t].pc = "check"
    /\ threads' = SetThread(t, [threads.th[t] EXCEPT !.pc =
          IF NeedBlock(chain, IF chain = 0 THEN 0 ELSE blocks[chain].used,
                       threads.th[t].size)
            THEN "create" ELSE "ptr"])
    /\ UNCHANGED <<walk, prog, apps, pool, arena, pool_index, blocks, chain, ranges, ret>>

\* MemoryPool* new_pool = create_pool(); if (new_pool == NULL) return NULL;
cthr_create(t) ==
    /\ prog = "chainrace"
    /\ threads.th[t].pc = "create"
    /\ Len(blocks) < MaxBlocks
    /\ \E hdr_ok, mem_ok \in BOOLEAN :
          IF hdr_ok
            THEN /\ blocks' = Append(blocks, NewBlock(Len(blocks) + 1, mem_ok))
                 /\ threads' = SetThread(t, [threads.th[t] EXCEPT
                                  !.pc = "link", !.new = Len(blocks) + 1])
                 /\ UNCHANGED ret
            ELSE /\ threads' = SetThread(t, Idle)
                 /\ ret' = Returned("alloc", threads.th[t].size, NULL, 0,
                                    chain, FALSE, TRUE)
                 /\ UNCHANGED blocks
    /\ UNCHANGED <<walk, prog, apps, pool, arena, pool_index, chain, ranges>>

\* new_pool->next = *pool;
cthr_link(t) ==
    /\ prog = "chainrace"
    /\ threads.th[t].pc = "link"
    /\ blocks' = [blocks EXCEPT ![threads.th[t].new].next =
                     LinkNext(chain, threads.th[t].new)]
    /\ threads' = SetThread(t, [threads.th[t] EXCEPT !.pc = "install"])
    /\ UNCHANGED <<walk, prog, apps, pool, arena, pool_index, chain, ranges, ret>>

\* *pool = new_pool;
cthr_install(t) ==
    /\ prog = "chainrace"
    /\ threads.th[t].pc = "install"
    /\ chain' = threads.th[t].new
    /\ threads' = SetThread(t, [threads.th[t] EXCEPT !.pc = "ptr"])
    /\ UNCHANGED <<walk, prog, apps, pool, arena, pool_index, blocks, ranges, ret>>

\* void* ptr = (*pool)->memory + (*pool)->used;
cthr_ptr(t) ==
    /\ prog = "chainrace"
    /\ threads.th[t].pc = "ptr"
    /\ threads' = SetThread(t, [threads.th[t] EXCEPT
                      !.pc = "add",
                      !.ptr = Ptr(blocks[chain].memory, blocks[chain].used),
                      !.tmp = chain])
    /\ UNCHANGED <<walk, prog, apps, pool, arena, pool_index, blocks, chain, ranges, ret>>

\* (*pool)->used += size; return ptr;
cthr_add(t) ==
    /\ prog = "chainrace"
    /\ threads.th[t].pc = "add"
    /\ blocks' = [blocks EXCEPT ![chain] = Bump(blocks[chain], threads.th[t].size)]
    /\ ranges' = Append(ranges, Range(threads.th[t].ptr, threads.th[t].size))
    /\ ret' = Returned("alloc", threads.th[t].size, threads.th[t].ptr,
                       threads.th[t].ptr.off, chain, threads.th[t].new # 0, FALSE)
    /\ threads' = SetThread(t, [threads.th[t] EXCEPT !.pc = "idle"])
    /\ UNCHANGED <<walk, prog, apps, pool, arena, pool_index, chain>>

\* one block that create_pool() has built is the head the threads share
InitChainRace ==
    /\ prog = "chainrace"
    /\ pool = [state |-> "none", memory |-> 0, used |-> 0, capacity |-> 0]
    /\ arena = [state |-> "none", start |-> 0, size |-> 0, used |-> 0]
    /\ pool_index = 0
    /\ blocks = <<NewBlock(1, TRUE)>>
    /\ chain = 1
    /\ ranges = <<>>
    /\ ret = NoRet
    /\ walk = NoWalk
    /\ threads = NoThreads
    /\ AppsOff

NextChainRace ==
    \/ \E t \in Threads : cthr_call(t)
    \/ \E t \in Threads : cthr_check(t)
    \/ \E t \in Threads : cthr_create(t)
    \/ \E t \in Threads : cthr_link(t)
    \/ \E t \in Threads : cthr_install(t)
    \/ \E t \in Threads : cthr_ptr(t)
    \/ \E t \in Threads : cthr_add(t)

SpecChainRace == InitChainRace /\ [][NextChainRace]_vars

---------------------------------------------------------------------------
(* MemoryLeaks.c, the allocation tracker: tracked_malloc / tracked_free    *)
(* over static void* alloc_tracker[MAX_ALLOCS] and static alloc_count.     *)
(* A heap address is a positive number, 0 is NULL.  heap is the set of     *)
(* addresses malloc has handed out and free has not taken back.            *)

\* the bump allocators are not in use
AllocsOff ==
    /\ pool = [state |-> "none", memory |-> 0, used |-> 0, capacity |-> 0]
    /\ arena = [state |-> "none", start |-> 0, size |-> 0, used |-> 0]
    /\ pool_index = 0
    /\ blocks = <<>>
    /\ chain = 0
    /\ ranges = <<>>
    /\ ret = NoRet
    /\ walk = NoWalk
    /\ threads = NoThreads

\* the tracker after n calls of tracked_malloc that all succeeded
TrackerAfter(n) ==
    [alloc_tracker |-> [i \in 0..(MAX_ALLOCS - 1) |-> IF i < n THEN i + 1 ELSE 0],
     alloc_count |-> n,
     heap |-> 1..n,
     last |-> n,
     freed |-> 0,
     calls |-> 0]

\* a fresh tracker, and one that is one entry short of full
TrackerInits == {TrackerAfter(0), TrackerAfter(MAX_ALLOCS - 1)}

\* malloc: the lowest address not in use
FreshAddr(heap) ==
    CHOOSE a \in 1..(Cardinality(heap) + 1) :
        a \notin heap /\ \A b \in 1..(a - 1) : b \in heap

\* an address malloc never returns in a run
Wild == 2 * MAX_ALLOCS

\* void* tracked_malloc(size_t size)
tracked_malloc ==
    /\ prog = "tracker"
    /\ tracker.calls < MaxCalls
    /\ \E ok \in BOOLEAN :
         LET ptr == IF ok THEN FreshAddr(tracker.heap) ELSE 0
             track == ptr # 0 /\ tracker.alloc_count < MAX_ALLOCS
         IN tracker' = [tracker EXCEPT
                !.alloc_tracker = IF track
                                    THEN [@ EXCEPT ![tracker.alloc_count] = ptr]
                                    ELSE @,
                !.alloc_count = IF track THEN @ + 1 ELSE @,
                !.heap = IF ptr # 0 THEN @ \cup {ptr} ELSE @,
                !.last = ptr,
                !.freed = 0,
                !.calls = @ + 1]
    /\ UNCHANGED but_tracker

\* the indices at which the loop of tracked_free finds ptr
Tracked(ptr) ==
    {i \in 0..(tracker.alloc_count - 1) : tracker.alloc_tracker[i] = ptr}

\* void tracked_free(void* ptr)
tracked_free ==
    /\ prog = "tracker"
    /\ tracker.calls < MaxCalls
    /\ \E ptr \in {0, tracker.alloc_tracker[0], tracker.last, Wild} :
         IF Tracked(ptr) # {}
           THEN LET i == CHOOSE k \in Tracked(ptr) : \A m \in Tracked(ptr) : k <= m
                IN tracker' = [tracker EXCEPT
                       !.alloc_tracker =
                           [@ EXCEPT ![i] = tracker.alloc_tracker[tracker.alloc_count - 1]],
                       !.alloc_count = @ - 1,
                       !.heap = @ \ {ptr},
                       !.freed = ptr,
                       !.calls = @ + 1]
           ELSE tracker' = [tracker EXCEPT !.freed = 0, !.calls = @ + 1]
    /\ UNCHANGED but_tracker

InitTracker ==
    /\ prog = "tracker"
    /\ AllocsOff
    /\ tracker \in TrackerInits
    /\ copy = Off
    /\ handle = Off
    /\ manager = Off
    /\ stack = Off
    /\ slots = Off
    /\ ring = Off
    /\ screen = Off
    /\ rev = Off

NextTracker ==
    \/ tracked_malloc
    \/ tracked_free

SpecTracker == InitTracker /\ [][NextTracker]_vars

---------------------------------------------------------------------------
(* CharacterArraysAndStrings.c, safe_strcpy(dest, dest_size, src).         *)
(* A character is its code, NUL is 0.  src is the characters before its    *)
(* NUL.  dest points at cell 0 of mem; the caller's buffer is the first    *)
(* dest_size cells, the cells after it belong to something else.           *)

NUL == 0
Chars == {97, 98}
\* the source strings: every string over Chars of length 0..MaxLen
Strings == UNION {[1..n -> Chars] : n \in 0..MaxLen}
\* the memory at and after dest
Cells == 0..(MaxLen + 1)
\* what every cell holds before the call: an unterminated old content
Garbage == {63, 97}

CopyInits ==
    {[state |-> "idle", mem |-> [i \in Cells |-> g],
      before |-> [i \in Cells |-> g], written |-> {},
      dest |-> FALSE, src_given |-> FALSE, src |-> <<>>, dest_size |-> 0,
      result |-> FALSE] : g \in Garbage}

\* strlen(src)
strlen(str) == Len(str)

\* a clamp that keeps no room for the terminator
ClampNoRoom(src_len, dest_size) ==
    IF src_len >= dest_size THEN dest_size ELSE src_len

\* if (src_len >= dest_size) src_len = dest_size - 1;
Clamp(src_len, dest_size) ==
    IF src_len >= dest_size THEN dest_size - 1 ELSE src_len

\* memcpy(dest, src, n)
memcpy(mem, str, n) ==
    [i \in DOMAIN mem |-> IF i < n THEN str[i + 1] ELSE mem[i]]

\* char* safe_strcpy(char* dest, size_t dest_size, const char* src)
\* dest and src_given say whether the pointer is non-null
safe_strcpy ==
    /\ prog = "copy"
    /\ copy.state = "idle"
    /\ \E dest \in BOOLEAN, src_given \in BOOLEAN,
          dest_size \in 0..(MaxLen + 1), src \in Strings :
         IF ~dest \/ ~src_given \/ dest_size = 0
           THEN copy' = [copy EXCEPT
                   !.state = "returned", !.before = copy.mem, !.written = {},
                   !.dest = dest, !.src_given = src_given, !.src = src,
                   !.dest_size = dest_size, !.result = FALSE]
           ELSE LET src_len == Clamp(strlen(src), dest_size)
                IN copy' = [copy EXCEPT
                      !.state = "returned", !.before = copy.mem,
                      !.mem = [memcpy(copy.mem, src, src_len)
                                  EXCEPT ![src_len] = NUL],
                      !.written = 0..src_len,
                      !.dest = dest, !.src_given = src_given, !.src = src,
                      !.dest_size = dest_size, !.result = TRUE]
    /\ UNCHANGED but_copy

InitCopy ==
    /\ prog = "copy"
    /\ AllocsOff
    /\ tracker = Off
    /\ copy \in CopyInits
    /\ handle = Off
    /\ manager = Off
    /\ stack = Off
    /\ slots = Off
    /\ ring = Off
    /\ screen = Off
    /\ rev = Off

NextCopy == safe_strcpy

SpecCopy == InitCopy /\ [][NextCopy]_vars

---------------------------------------------------------------------------
(* Reference counting: create_ref_counted / increase_ref / decrease_ref of *)
(* DynamicMemoryAllocation.c, MemoryLeaks.c and StackVHeap.c, and the      *)
(* inc_ref / dec_ref of PointerDeclerationAndInitialization.c.             *)
(* ref_count is an int of INT_BITS bits; ++ at INT_MAX and -- at INT_MIN   *)
(* are signed overflow: the build either wraps or traps.                   *)

INT_MAX == 2 ^ (INT_BITS - 1) - 1
INT_MIN == -INT_MAX - 1

\* the values handed to create_ref_counted
Values == {0, 42, -1}

\* shared_obj after create_ref_counted(value) and n calls of increase_ref
HandleAfter(value, n) ==
    [state |-> "running", obj |-> 1, value |-> value, ref_count |-> 1 + n,
     frees |-> 0, created |-> TRUE, calls |-> 0]

\* before create_ref_counted, and an object that is two references short of INT_MAX
HandleInits ==
    {[state |-> "start", obj |-> 0, value |-> 0, ref_count |-> 0,
      frees |-> 0, created |-> FALSE, calls |-> 0]}
    \cup {HandleAfter(value, INT_MAX - 3) : value \in Values}

\* RefCounted* shared_obj = create_ref_counted(value);
create_ref_counted ==
    /\ prog = "handle"
    /\ handle.state = "start"
    /\ \E value \in Values, ok \in BOOLEAN :
         handle' = IF ok
                     THEN HandleAfter(value, 0)
                     ELSE [handle EXCEPT !.state = "running"]
    /\ UNCHANGED but_handle

\* what the build makes of a signed overflow
Overflows == {"wrap", "trap"}

\* ref_count-- inside the range of int
Decrement(n) == n - 1

\* void increase_ref(RefCounted* obj)     (inc_ref)
increase_ref ==
    /\ prog = "handle"
    /\ handle.state = "running"
    /\ handle.calls < MaxCalls
    /\ IF handle.obj = 0
         THEN handle' = [handle EXCEPT !.calls = @ + 1]
         ELSE IF handle.ref_count < INT_MAX
           THEN handle' = [handle EXCEPT !.ref_count = @ + 1, !.calls = @ + 1]
           ELSE \E overflow \in Overflows :
                  handle' = IF overflow = "wrap"
                              THEN [handle EXCEPT !.ref_count = INT_MIN,
                                                  !.calls = @ + 1]
                              ELSE [handle EXCEPT !.state = "aborted"]
    /\ UNCHANGED but_handle

\* void decrease_ref(RefCounted** obj)    (dec_ref; given is obj != NULL)
decrease_ref ==
    /\ prog = "handle"
    /\ handle.state = "running"
    /\ handle.calls < MaxCalls
    /\ \E given \in BOOLEAN :
         IF ~given \/ handle.obj = 0
           THEN handle' = [handle EXCEPT !.calls = @ + 1]
           ELSE IF handle.ref_count > INT_MIN
             THEN LET n == Decrement(handle.ref_count)
                  IN handle' = IF n = 0
                       THEN [handle EXCEPT !.ref_count = n, !.frees = @ + 1,
                                           !.obj = 0, !.calls = @ + 1]
                       ELSE [handle EXCEPT !.ref_count = n, !.calls = @ + 1]
             ELSE \E overflow \in Overflows :
                    handle' = IF overflow = "wrap"
                                THEN [handle EXCEPT !.ref_count = INT_MAX,
                                                    !.calls = @ + 1]
                                ELSE [handle EXCEPT !.state = "aborted"]
    /\ UNCHANGED but_handle

InitHandle ==
    /\ prog = "handle"
    /\ AllocsOff
    /\ tracker = Off
    /\ copy = Off
    /\ handle \in HandleInits
    /\ manager = Off
    /\ stack = Off
    /\ slots = Off
    /\ ring = Off
    /\ screen = Off
    /\ rev = Off

NextHandle ==
    \/ create_ref_counted
    \/ increase_ref
    \/ decrease_ref

SpecHandle == InitHandle /\ [][NextHandle]_vars

---------------------------------------------------------------------------
(* MemoryLeaks.c, the ResourceManager: create_resource_manager and         *)
(* add_resource.  resources is the array as written so far (slot i of the  *)
(* C array is resources[i + 1]); slots says how many void* the block that  *)
(* rm->resources points at really holds.                                   *)

\* the initial_capacity values a caller passes
InitialCapacities == {0, 1, 2}
\* the resource pointers a caller adds
Resources == {1, 2}

ManagerInits ==
    {[state |-> "none", resources |-> <<>>, slots |-> 0, count |-> 0,
      capacity |-> 0, valid |-> FALSE, last |-> "none", index |-> 0,
      calls |-> 0]}

\* ResourceManager* create_resource_manager(size_t initial_capacity)
\* malloc(0) may return a null pointer or a block of no slots
create_resource_manager ==
    /\ prog = "manager"
    /\ manager.state = "none"
    /\ \E initial_capacity \in InitialCapacities, rm_ok, res_ok \in BOOLEAN :
         manager' = IF rm_ok /\ res_ok
                      THEN [manager EXCEPT !.state = "live",
                                           !.slots = initial_capacity,
                                           !.capacity = initial_capacity,
                                           !.valid = TRUE,
                                           !.last = "create"]
                      ELSE [manager EXCEPT !.state = "null"]
    /\ UNCHANGED but_manager

\* rm->resources[rm->count++] = resource;
Store(rm, resource) ==
    [rm EXCEPT !.resources = Append(@, resource),
               !.index = rm.count,
               !.count = SizeAdd(@, 1),
               !.last = "stored",
               !.calls = @ + 1]

\* void add_resource(ResourceManager* rm, void* resource)
\* realloc to 0 bytes may free the block and return a null pointer
add_resource ==
    /\ prog = "manager"
    /\ manager.state = "live"
    /\ manager.calls < MaxCalls
    /\ \E resource \in Resources, ok \in BOOLEAN, freed \in BOOLEAN :
         IF manager.count = manager.capacity
           THEN LET new_capacity == (manager.capacity * 2) % SIZE_MOD
                IN IF ok
                     THEN /\ ~freed
                          /\ manager' = Store([manager EXCEPT
                                                 !.slots = new_capacity,
                                                 !.capacity = new_capacity],
                                              resource)
                     ELSE /\ freed => new_capacity = 0
                          /\ manager' = [manager EXCEPT
                                           !.valid = @ /\ ~freed,
                                           !.last = "failed",
                                           !.calls = @ + 1]
           ELSE /\ ok /\ ~freed
                /\ manager' = Store(manager, resource)
    /\ UNCHANGED but_manager

InitManager ==
    /\ prog = "manager"
    /\ AllocsOff
    /\ tracker = Off
    /\ copy = Off
    /\ handle = Off
    /\ manager \in ManagerInits
    /\ stack = Off
    /\ slots = Off
    /\ ring = Off
    /\ screen = Off
    /\ rev = Off

NextManager ==
    \/ create_resource_manager
    \/ add_resource

SpecManager == InitManager /\ [][NextManager]_vars

---------------------------------------------------------------------------
(* Ch1.c, the Stack: createStack / push / pop.  data is the int array of   *)
(* capacity cells (NoData when its malloc failed); pushed is the sequence  *)
(* of items that a stack of that capacity holds by definition: what was    *)
(* pushed while not full and has not been popped.                          *)

\* the items a caller pushes
Items == {-1, 0, 7}
\* what a cell of malloc'ed memory holds before it is written
Uninit == 0
NoData == <<>>

StackInits ==
    {[state |-> "none", data |-> NoData, top |-> 0, capacity |-> 0,
      pushed |-> <<>>, last |-> "none", result |-> 0, before |-> <<>>]}

\* what push and pop may change
Fields(s) == <<s.data, s.top, s.capacity>>

\* Stack* createStack(int capacity)
\* a failed malloc of s is dereferenced at once; a failed malloc of data is kept
createStack ==
    /\ prog = "stack"
    /\ stack.state = "none"
    /\ \E capacity \in 1..MaxCapacity, s_ok, data_ok \in BOOLEAN :
         stack' = IF ~s_ok
                    THEN [stack EXCEPT !.state = "crashed"]
                    ELSE [stack EXCEPT
                            !.state = "live",
                            !.capacity = capacity,
                            !.top = -1,
                            !.data = IF data_ok
                                       THEN [i \in 0..(capacity - 1) |-> Uninit]
                                       ELSE NoData,
                            !.last = "create"]
    /\ UNCHANGED but_stack

\* a test that lets one push too many through
StackFullLate(top, capacity) == top = capacity

\* if (s->top == s->capacity - 1) return;
StackFull(top, capacity) == top = capacity - 1

\* void push(Stack *s, int item)
push ==
    /\ prog = "stack"
    /\ stack.state = "live"
    /\ \E item \in Items :
         IF StackFull(stack.top, stack.capacity)
           THEN stack' = [stack EXCEPT !.last = "push", !.before = Fields(stack)]
           ELSE IF stack.data = NoData
             THEN stack' = [stack EXCEPT !.state = "crashed"]
             ELSE stack' = [stack EXCEPT
                     !.top = @ + 1,
                     !.data = IF stack.top + 1 \in DOMAIN stack.data
                                THEN [@ EXCEPT ![stack.top + 1] = item]
                                ELSE @,
                     !.pushed = IF Len(@) < stack.capacity
                                  THEN Append(@, item) ELSE @,
                     !.last = "push",
                     !.before = Fields(stack)]
    /\ UNCHANGED but_stack

\* int pop(Stack *s)
pop ==
    /\ prog = "stack"
    /\ stack.state = "live"
    /\ IF stack.top = -1
         THEN stack' = [stack EXCEPT !.result = -1, !.last = "pop",
                                     !.before = Fields(stack)]
         ELSE IF stack.data = NoData \/ stack.top \notin DOMAIN stack.data
           THEN stack' = [stack EXCEPT !.state = "crashed"]
           ELSE stack' = [stack EXCEPT
                   !.result = stack.data[stack.top],
                   !.top = @ - 1,
                   !.pushed = IF Len(@) > 0 THEN SubSeq(@, 1, Len(@) - 1) ELSE @,
                   !.last = "pop",
                   !.before = Fields(stack)]
    /\ UNCHANGED but_stack

InitStack ==
    /\ prog = "stack"
    /\ AllocsOff
    /\ tracker = Off
    /\ copy = Off
    /\ handle = Off
    /\ manager = Off
    /\ stack \in StackInits
    /\ slots = Off
    /\ ring = Off
    /\ screen = Off
    /\ rev = Off

NextStack ==
    \/ createStack
    \/ push
    \/ pop

SpecStack == InitStack /\ [][NextStack]_vars

---------------------------------------------------------------------------
(* PointerArithmetic.c, custom_alloc: slots of SLOT_BYTES bytes handed out *)
(* from the malloc(SLOT_POOL_BYTES) block memory_pool, at most SLOT_COUNT. *)
(* allocated_memory holds byte offsets into memory_pool.                   *)

\* the sizes a caller asks for: sizeof(int), a whole slot, more than a slot
SlotSizes == {4, 100, 150}

SlotsInits ==
    {[allocated_memory |-> <<>>, allocated_size |-> <<>>,
      allocation_count |-> 0, last |-> "none", ptr |-> 0]}

\* void *custom_alloc(size_t size)
custom_alloc ==
    /\ prog = "slots"
    /\ \E size \in SlotSizes :
         IF slots.allocation_count >= SLOT_COUNT
           THEN slots' = [slots EXCEPT !.last = "null"]
           ELSE LET ptr == slots.allocation_count * SLOT_BYTES
                IN slots' = [slots EXCEPT
                       !.allocated_memory = Append(@, ptr),
                       !.allocated_size = Append(@, size),
                       !.allocation_count = @ + 1,
                       !.last = "ptr",
                       !.ptr = ptr]
    /\ UNCHANGED but_slots

InitSlots ==
    /\ prog = "slots"
    /\ AllocsOff
    /\ tracker = Off
    /\ copy = Off
    /\ handle = Off
    /\ manager = Off
    /\ stack = Off
    /\ slots \in SlotsInits
    /\ ring = Off
    /\ screen = Off
    /\ rev = Off

NextSlots == custom_alloc

SpecSlots == InitSlots /\ [][NextSlots]_vars

---------------------------------------------------------------------------
(* Ch2.c, the circular buffer: int buffer[BUFFER_SIZE], write_index and    *)
(* read_index are ints that only ever grow; the cell used is               *)
(* index & BUFFER_MASK.  written is every value written in this run, reads *)
(* the number of reads; inorder says that 0 <= writes - reads <=           *)
(* BUFFER_SIZE has held so far.                                            *)

\* a mask that is the size, not the size minus one
BufferMaskIsSize == BUFFER_SIZE

BUFFER_MASK == BUFFER_SIZE - 1

\* the values a caller writes
RingValues == {1, 2}

\* an int as the unsigned number with the same bits (two's complement)
Bits(x) == IF x < 0 THEN x + 2 ^ INT_BITS ELSE x

\* bitwise and of two unsigned numbers, bit by bit
RECURSIVE AndBits(_, _)
AndBits(a, b) ==
    IF a = 0 \/ b = 0 THEN 0
    ELSE (IF a % 2 = 1 /\ b % 2 = 1 THEN 1 ELSE 0) + 2 * AndBits(a \div 2, b \div 2)

\* index & BUFFER_MASK
Masked(index) == AndBits(Bits(index), Bits(BUFFER_MASK))

\* the buffer when both indices stand at start: nothing written in this run
RingAt(start) ==
    [state |-> "running", buffer |-> [i \in 0..(BUFFER_SIZE - 1) |-> 0],
     write_index |-> start, read_index |-> start,
     written |-> <<>>, reads |-> 0, inorder |-> TRUE,
     last |-> "none", cell |-> 0, result |-> 0]

\* the start of the program, and the state after INT_MAX - 5 writes of 0,
\* each followed by a read
RingInits == {RingAt(0), RingAt(INT_MAX - 5)}

\* index++ on an int: signed overflow at INT_MAX wraps or traps
Incremented(index) ==
    IF index < INT_MAX
      THEN {[trap |-> FALSE, value |-> index + 1]}
      ELSE {[trap |-> FALSE, value |-> INT_MIN], [trap |-> TRUE, value |-> index]}

\* void write(int value)
write ==
    /\ prog = "ring"
    /\ ring.state = "running"
    /\ Len(ring.written) < MaxWrites
    /\ \E value \in RingValues, next \in Incremented(ring.write_index) :
         ring' = IF next.trap
                   THEN [ring EXCEPT !.state = "aborted"]
                   ELSE [ring EXCEPT
                           !.buffer = IF Masked(ring.write_index) \in DOMAIN @
                                        THEN [@ EXCEPT ![Masked(ring.write_index)] = value]
                                        ELSE @,
                           !.cell = Masked(ring.write_index),
                           !.write_index = next.value,
                           !.written = Append(@, value),
                           !.inorder = @ /\ Len(ring.written) + 1 - ring.reads <= BUFFER_SIZE,
                           !.last = "write"]
    /\ UNCHANGED but_ring

\* int read()
read ==
    /\ prog = "ring"
    /\ ring.state = "running"
    /\ ring.reads < MaxWrites
    /\ \E next \in Incremented(ring.read_index) :
         ring' = IF next.trap
                   THEN [ring EXCEPT !.state = "aborted"]
                   ELSE [ring EXCEPT
                           !.result = IF Masked(ring.read_index) \in DOMAIN ring.buffer
                                        THEN ring.buffer[Masked(ring.read_index)]
                                        ELSE 0,
                           !.cell = Masked(ring.read_index),
                           !.read_index = next.value,
                           !.reads = @ + 1,
                           !.inorder = @ /\ Len(ring.written) - (ring.reads + 1) >= 0,
                           !.last = "read"]
    /\ UNCHANGED but_ring

InitRing ==
    /\ prog = "ring"
    /\ AllocsOff
    /\ tracker = Off
    /\ copy = Off
    /\ handle = Off
    /\ manager = Off
    /\ stack = Off
    /\ slots = Off
    /\ ring \in RingInits
    /\ screen = Off
    /\ rev = Off

NextRing ==
    \/ write
    \/ read

SpecRing == InitRing /\ [][NextRing]_vars

---------------------------------------------------------------------------
(* recursion.c, flood_fill(screen, m, n, x, y, prevColor, newColor).  The  *)
(* recursion is the sequence frames of pending calls, innermost last; a    *)
(* frame is the call's x and y and how far the call has got: 0 on entry,   *)
(* 1..4 before its recursive calls (x+1, x-1, y+1, y-1), 5 before its      *)
(* return.                                                                 *)

\* int screen[5][5] of main
MainScreen ==
    <<<<1, 1, 1, 1, 1>>,
      <<1, 1, 1, 1, 1>>,
      <<1, 1, 1, 0, 0>>,
      <<1, 1, 0, 1, 1>>,
      <<1, 1, 1, 1, 1>>>>

\* MainScreen and three striped screens, as screen[x][y] with x, y from 0
Screens ==
    {[x \in 0..(ROWS - 1) |-> [y \in 0..(COLS - 1) |-> MainScreen[x + 1][y + 1]]]}
    \cup {[x \in 0..(ROWS - 1) |->
             [y \in 0..(COLS - 1) |-> IF (x * y + x + k) % 3 = 0 THEN 0 ELSE 1]]
          : k \in 0..2}

\* the start cells: every cell of the grid and one ring around it
Coords == -1..ROWS
\* the colours passed as prevColor and as newColor
PrevColors == {0, 1}
NewColors == {1, 2}

ScreenInits ==
    {[state |-> "idle", screen |-> scr, orig |-> scr, frames |-> <<>>,
      x |-> 0, y |-> 0, prevColor |-> 0, newColor |-> 0] : scr \in Screens}

\* the call of main: flood_fill(screen, 5, 5, x, y, prevColor, newColor)
flood_fill ==
    /\ prog = "screen"
    /\ screen.state = "idle"
    /\ \E x \in Coords, y \in Coords, prevColor \in PrevColors,
          newColor \in NewColors :
         screen' = [screen EXCEPT
                      !.state = "running",
                      !.frames = <<[x |-> x, y |-> y, at |-> 0]>>,
                      !.x = x, !.y = y,
                      !.prevColor = prevColor, !.newColor = newColor]
    /\ UNCHANGED but_screen

\* the innermost pending call
Top == screen.frames[Len(screen.frames)]

\* the call returns to its caller, or to main
Return ==
    [screen EXCEPT
       !.frames = SubSeq(@, 1, Len(@) - 1),
       !.state = IF Len(screen.frames) = 1 THEN "done" ELSE @]

\* if (x < 0 || x >= m || y < 0 || y >= n) return;
Outside(x, y) == x < 0 \/ x >= ROWS \/ y < 0 \/ y >= COLS

\* the base cases, then screen[x][y] = newColor;
fill_enter ==
    /\ prog = "screen"
    /\ screen.state = "running"
    /\ Top.at = 0
    /\ screen' =
         IF Outside(Top.x, Top.y)
           THEN Return
           ELSE IF screen.screen[Top.x][Top.y] # screen.prevColor
             THEN Return
             ELSE [screen EXCEPT
                     !.screen[Top.x][Top.y] = screen.newColor,
                     !.frames[Len(screen.frames)].at = 1]
    /\ UNCHANGED but_screen

\* the cell of the k-th recursive call: north, east, south and west
Neighbour(x, y, k) ==
    CASE k = 1 -> [x |-> x + 1, y |-> y]
      [] k = 2 -> [x |-> x - 1, y |-> y]
      [] k = 3 -> [x |-> x, y |-> y + 1]
      [] k = 4 -> [x |-> x, y |-> y - 1]

\* flood_fill(screen, m, n, x+1, y, ...); and the three calls after it
fill_recur ==
    /\ prog = "screen"
    /\ screen.state = "running"
    /\ Top.at \in 1..4
    /\ Len(screen.frames) <= StackLimit
    /\ LET cell == Neighbour(Top.x, Top.y, Top.at)
       IN screen' = [screen EXCEPT
              !.frames = Append([@ EXCEPT ![Len(screen.frames)].at = Top.at + 1],
                                [x |-> cell.x, y |-> cell.y, at |-> 0])]
    /\ UNCHANGED but_screen

\* the closing brace of flood_fill
fill_return ==
    /\ prog = "screen"
    /\ screen.state = "running"
    /\ Top.at = 5
    /\ screen' = Return
    /\ UNCHANGED but_screen

InitScreen ==
    /\ prog = "screen"
    /\ AllocsOff
    /\ tracker = Off
    /\ copy = Off
    /\ handle = Off
    /\ manager = Off
    /\ stack = Off
    /\ slots = Off
    /\ ring = Off
    /\ screen \in ScreenInits
    /\ rev = Off

NextScreen ==
    \/ flood_fill
    \/ fill_enter
    \/ fill_recur
    \/ fill_return

SpecScreen == InitScreen /\ [][NextScreen]_vars

---------------------------------------------------------------------------
(* recursion.c, reverse_string(str): static int i and static char rev[100] *)
(* live across calls.  A string is the characters before its NUL.          *)

\* the strings a caller passes
RevArgs == {<<>>, <<97>>, <<97, 98>>, <<98, 97, 97>>}

\* static int i = 0; static char rev[100];  (statics start as zeros)
RevInits ==
    {[rev |-> [k \in 0..(REV_BYTES - 1) |-> NUL], i |-> 0,
      str |-> <<>>, result |-> <<>>, calls |-> 0]}

\* if (*str) { reverse_string(str + 1); rev[i++] = *str; }
RECURSIVE Reversing(_, _)
Reversing(st, str) ==
    IF str = <<>>
      THEN st
      ELSE LET inner == Reversing(st, Tail(str))
           IN [rev |-> [inner.rev EXCEPT ![inner.i] = Head(str)],
               i |-> inner.i + 1]

\* the C string that starts at rev[0], as the caller reads the returned pointer
RECURSIVE CString(_, _)
CString(mem, k) ==
    IF k \notin DOMAIN mem \/ mem[k] = NUL THEN <<>>
    ELSE <<mem[k]>> \o CString(mem, k + 1)

\* char* reverse_string(char* str), called from outside
reverse_string ==
    /\ prog = "rev"
    /\ rev.calls < MaxCalls
    /\ \E str \in RevArgs :
         LET st == Reversing([rev |-> rev.rev, i |-> rev.i], str)
         IN rev' = [rev |-> st.rev, i |-> st.i, str |-> str,
                    result |-> CString(st.rev, 0), calls |-> rev.calls + 1]
    /\ UNCHANGED but_rev

InitRev ==
    /\ prog = "rev"
    /\ AllocsOff
    /\ tracker = Off
    /\ copy = Off
    /\ handle = Off
    /\ manager = Off
    /\ stack = Off
    /\ slots = Off
    /\ ring = Off
    /\ screen = Off
    /\ rev \in RevInits

NextRev == reverse_string

SpecRev == InitRev /\ [][NextRev]_vars

---------------------------------------------------------------------------
(* What the claims speak about: the allocator this run exercises *)

\* bytes handed out from the current block
Used ==
    CASE prog = "pool" -> pool.used
      [] prog = "arena" -> arena.used
      [] prog = "static" -> pool_index
      [] OTHER -> IF chain = 0 THEN 0 ELSE blocks[chain].used

\* bytes the current block holds
Capacity ==
    CASE prog = "pool" -> pool.capacity
      [] prog = "arena" -> arena.size
      [] prog = "static" -> POOL_SIZE
      [] OTHER -> IF chain = 0 THEN 0 ELSE blocks[chain].cap

Fixed == prog \in {"pool", "arena", "static"} /\ pool.state # "freed"

\* a call to allocate that did not take the early return and has a real base
Succeeded == ret.op = "alloc" /\ ret.ptr.base # 0

Disjoint(r, s) ==
    \/ r.base # s.base
    \/ r.off + r.size <= s.off
    \/ s.off + s.size <= r.off

RECURSIVE SumSizes(_)
SumSizes(rs) == IF rs = <<>> THEN 0 ELSE rs[1].size + SumSizes(Tail(rs))

Max(a, b) == IF a >= b THEN a ELSE b

---------------------------------------------------------------------------
(* Claims *)

\* C1: for the fixed-capacity allocators (MemoryPool, MemoryArena, static
\* pool), after create and any sequence of allocate and reset calls with
\* arbitrary sizes, 0 <= used <= capacity in every reachable state.
C1_UsedWithinCapacity ==
    /\ pool.used >= 0 /\ pool.used <= pool.capacity
    /\ arena.used >= 0 /\ arena.used <= arena.size
    /\ pool_index >= 0 /\ pool_index <= POOL_SIZE

\* C1 witness: the pool accepted a request larger than its whole capacity
\* (the size_t sum wrapped) and used is non-zero afterwards.
C1_Witness ==
    /\ prog = "pool" /\ Succeeded
    /\ ret.size > pool.capacity
    /\ pool.used > 0

\* C2: the ranges returned by the successful allocations on one fixed-capacity
\* arena between its creation and its reset or destroy are pairwise disjoint,
\* each lies inside the backing block, and none is returned a second time.
C2_NonAliasing ==
    Fixed =>
      \A i \in 1..Len(ranges) :
        ranges[i].base # 0 =>
          /\ ranges[i].off + ranges[i].size <= Capacity
          /\ \A j \in 1..Len(ranges) : i < j => Disjoint(ranges[i], ranges[j])

\* C3: in the fixed-capacity variant a request that does not fit in the
\* remaining space (used + size > capacity) fails, returns no range and leaves
\* used unchanged.
C3_ExhaustedFails ==
    (Fixed /\ ret.op = "alloc" /\ ret.used_before + ret.size > Capacity) =>
       /\ ret.ptr = NULL
       /\ Used = ret.used_before

\* C4: every successful allocate returns the offset equal to used before the
\* call and increases used by exactly the requested size, so the k-th
\* successful allocation starts at the sum of the sizes of the earlier ones.
C4_SequentialOffsets ==
    (Fixed /\ Succeeded) =>
       /\ ret.ptr.off = ret.used_before
       /\ Used = ret.used_before + ret.size
       /\ ret.ptr.off = SumSizes(SubSeq(ranges, 1, Len(ranges) - 1))

\* C5: in the chained variant every returned range lies entirely within a
\* single block and used never exceeds the capacity of any block, for every
\* request size including sizes larger than the block size.
C5_ChainedWithinBlock ==
    prog = "chain" =>
      /\ \A b \in 1..Len(blocks) :
           blocks[b].memory # 0 => blocks[b].used <= blocks[b].cap
      /\ \A i \in 1..Len(ranges) :
           ranges[i].base # 0 =>
             ranges[i].off + ranges[i].size <= blocks[ranges[i].base].cap

\* C6: in the chained variant the block created when the current block cannot
\* satisfy a request has capacity max(default_block_size, size + alignment - 1)
\* (alignment 1 here), so the retried allocation always fits.
C6_NewBlockFits ==
    (prog = "chain" /\ ret.op = "alloc" /\ ret.grew /\ blocks[chain].memory # 0) =>
       /\ blocks[chain].cap = Max(POOL_BLOCK_SIZE, ret.size)
       /\ ret.size <= blocks[chain].cap

\* C7: in the chained variant a request that does not fit in the current
\* block succeeds (when the system allocator supplies the block) by creating a
\* fresh block, making it the head whose next link is the previous head, and
\* returning the range at offset 0 of the fresh block, in a different block
\* from every earlier range.
C7_GrowLinksFreshBlock ==
    (/\ prog = "chain" /\ ret.op = "alloc" /\ ~ret.oom
     /\ ret.head_before # 0
     /\ ret.used_before + ret.size > POOL_BLOCK_SIZE
     /\ \A b \in 1..Len(blocks) : blocks[b].memory # 0) =>
       /\ ret.grew
       /\ chain # ret.head_before
       /\ blocks[chain].next = ret.head_before
       /\ ret.ptr = Ptr(chain, 0)
       /\ \A i \in 1..(Len(ranges) - 1) : ranges[i].base # ret.ptr.base

\* C8: for every successful allocate(size, alignment) with alignment a power
\* of two the returned start offset is a multiple of the requested alignment;
\* create(64); allocate(1,8); allocate(1,8) returns offsets 0 and 8.
C8_AlignedOffsets ==
    (Fixed /\ Succeeded /\ ret.size > 0) =>
       \A a \in Alignments : ret.ptr.off % a = 0

\* C9: allocate with size == 0 is rejected: it returns no range and leaves
\* used unchanged, in every state of the arena (empty, partly used, full).
C9_ZeroSizeRejected ==
    (Fixed /\ ret.op = "alloc" /\ ret.size = 0) =>
       /\ ret.ptr = NULL
       /\ Used = ret.used_before

\* C10: after reset, following any earlier allocations, used is 0 and
\* allocate(size = capacity) succeeds and returns the block's base offset, the
\* address of the first allocation after create; a second reset in a row
\* leaves the state of the first.
C10_ResetEmpties ==
    prog = "static" =>
      /\ ret.op = "reset" => (pool_index = 0 /\ ranges = <<>>)
      /\ (ret.op = "reset" /\ ret.prev = "reset") => pool_index = ret.used_before
      /\ (ret.op = "alloc" /\ ret.prev = "reset" /\ ret.size = POOL_SIZE) =>
            (ret.ptr = Ptr(BUF, 0) /\ pool_index = POOL_SIZE)
      /\ (ret.op = "alloc" /\ ret.prev = "none" /\ ret.ptr # NULL) =>
            ret.ptr = Ptr(BUF, 0)

\* C10 witness: the buffer was full, pool_reset ran, and the allocation of the
\* whole buffer that followed returned the base of memory_pool.
C10_Witness ==
    /\ prog = "static"
    /\ ret.prev_used = POOL_SIZE
    /\ ret.op = "alloc" /\ ret.prev = "reset" /\ ret.size = POOL_SIZE
    /\ ret.ptr = Ptr(BUF, 0)

\* C11: create fails as a whole when the system allocator cannot supply the
\* backing buffer: no arena exists whose backing storage is null while its
\* capacity is non-zero, and no allocate hands out a pointer computed from a
\* null base.
C11_CreateFailsWhole ==
    /\ pool.state = "live" => (pool.memory # 0 \/ pool.capacity = 0)
    /\ arena.state = "live" => (arena.start # 0 \/ arena.size = 0)
    /\ \A b \in 1..Len(blocks) : blocks[b].memory # 0
    /\ (ret.op = "alloc" /\ ret.ptr.off > 0) => ret.ptr.base # 0

\* C12: in the chained variant, when a new block is needed and the system
\* allocator fails (for the block header or for its backing buffer), allocate
\* fails, returns no range, and leaves the chain head, the next links and every
\* block's used unchanged.
C12_GrowFailureLeavesChain ==
    (/\ prog = "chain" /\ ret.op = "alloc"
     /\ (ret.oom \/ (ret.grew /\ blocks[chain].memory = 0))) =>
       /\ ret.ptr = NULL
       /\ ~ret.grew
       /\ chain = ret.head_before
       /\ Used = ret.used_before

\* C15: for every size_t value of size, including values for which
\* used + size wraps modulo 2^w, allocate on a fixed-capacity arena either fails
\* or returns a range inside [0, capacity) and keeps used <= capacity; a wrapped
\* sum never passes the capacity check.
C15_WrappedSumRejected ==
    (Fixed /\ ret.op = "alloc") =>
       /\ Used <= Capacity
       /\ ret.used_before + ret.size > SIZE_MAX =>
             (ret.ptr = NULL /\ Used = ret.used_before)
       /\ Succeeded => ret.ptr.off + ret.size <= Capacity

\* C19: a request with used + size == capacity succeeds and leaves
\* used == capacity; in that full state every further allocate with size > 0
\* fails, in the fixed-capacity variant, until reset.
C19_ExactFitThenFull ==
    (Fixed /\ ret.op = "alloc") =>
       /\ ret.used_before + ret.size = Capacity =>
             (ret.ptr.off = ret.used_before /\ Used = Capacity)
       /\ (ret.used_before = Capacity /\ ret.size > 0) =>
             (ret.ptr = NULL /\ Used = Capacity)

\* C13: destroy is terminal: once destroy has been applied, every later
\* allocate on the arena is rejected and returns no range.
C13_DestroyTerminal ==
    /\ (pool.state = "freed" /\ ret.op = "alloc") => ret.ptr = NULL
    /\ (arena.state = "destroyed" /\ ret.op = "alloc") => ret.ptr = NULL

RECURSIVE EndsInNull(_, _)
\* following next from p reaches NULL within fuel links
EndsInNull(p, fuel) ==
    IF p = 0 THEN TRUE
    ELSE IF fuel = 0 THEN FALSE
    ELSE EndsInNull(blocks[p].next, fuel - 1)

AllBlocks == 1..Len(blocks)

\* C14: in the chained variant, after any sequence of allocations every block
\* ever created is reachable from the head through next links and the chain is
\* acyclic and ends in null, so destroy_pool terminates and frees every block
\* exactly once: none is leaked, none is freed twice.
C14_ChainOwnsEveryBlock ==
    prog = "chain" =>
      /\ EndsInNull(chain, Len(blocks))
      /\ Chain(chain, Len(blocks)) = AllBlocks
      /\ \A b \in AllBlocks : blocks[b].frees <= 1
      /\ walk.state = "idle" => \A b \in AllBlocks : blocks[b].frees = 0
      /\ walk.state = "walking" =>
            \A b \in AllBlocks :
               blocks[b].frees = 0 <=> b \in Chain(walk.cur, Len(blocks))
      /\ walk.state = "done" => \A b \in AllBlocks : blocks[b].frees = 1

\* C14 witness: destroy_pool has walked a chain of MaxBlocks blocks to its end
\* and each block has been freed once.
C14_Witness ==
    /\ prog = "chain" /\ walk.state = "done"
    /\ Len(blocks) = MaxBlocks
    /\ \A b \in AllBlocks : blocks[b].frees = 1

\* C20: allocate changes only used of the current block and, in the chained
\* variant, the head of the chain: the base and capacity of every block, the
\* links and used of every non-head block and every range returned earlier are
\* left as they were, and the range comes from the head, never from a
\* superseded block.
C20_AllocateFrame ==
    [][ (ret'.op = "alloc" /\ pool.state # "freed") =>
          /\ pool'.state = pool.state
          /\ pool'.memory = pool.memory /\ pool'.capacity = pool.capacity
          /\ arena'.state = arena.state
          /\ arena'.start = arena.start /\ arena'.size = arena.size
          /\ Len(blocks') >= Len(blocks)
          /\ \A b \in AllBlocks :
                /\ blocks'[b].memory = blocks[b].memory
                /\ blocks'[b].cap = blocks[b].cap
                /\ blocks'[b].next = blocks[b].next
                /\ blocks'[b].frees = blocks[b].frees
                /\ b # chain' => blocks'[b].used = blocks[b].used
          /\ chain' = chain \/ chain' = Len(blocks) + 1
          /\ SubSeq(ranges', 1, Len(ranges)) = ranges
          /\ (prog = "chain" /\ ret'.ptr # NULL /\ chain' # 0) =>
                ret'.ptr.base = blocks'[chain'].memory
      ]_vars

\* C20 witness: the chained pool grew while the superseded head had handed out
\* a range, and two ranges are on record.
C20_Witness ==
    /\ prog = "chain" /\ ret.op = "alloc" /\ ret.grew
    /\ ret.head_before # 0 /\ blocks[ret.head_before].used > 0
    /\ Len(ranges) >= 2
    /\ ranges[1].base = ret.head_before

Quiet == \A t \in Threads : threads.th[t].pc = "idle"

\* C16: two threads calling allocate on the same fixed-capacity arena with no
\* synchronisation can both return the same offset, or leave used below the
\* sum of the sizes handed out (the witness); whatever the interleaving, used
\* never ends above that sum: an unsynchronised update is lost, not invented.
C16_RaceLosesUpdates ==
    prog = "race" => pool.used <= SumSizes(ranges)

\* C16 witness: both calls have returned, with sizes that fit and no wrapped
\* sum; they returned the same offset and used is below the sum of the sizes.
C16_Witness ==
    /\ prog = "race" /\ Quiet
    /\ Len(ranges) = 2
    /\ \A i \in 1..2 : ranges[i].size > 0 /\ ranges[i].size <= pool.capacity
    /\ ranges[1].off = ranges[2].off
    /\ pool.used < SumSizes(ranges)

\* C17: with a mutex held around each whole allocate call, for every
\* interleaving the returned ranges do not alias and lie inside the block,
\* used <= capacity, and used equals the sum of the sizes of the successful
\* allocations.
C17_LockedCallsAreSafe ==
    prog = "locked" =>
      /\ pool.used <= pool.capacity
      /\ \A i \in 1..Len(ranges) :
           /\ ranges[i].off + ranges[i].size <= pool.capacity
           /\ \A j \in 1..Len(ranges) : i < j => Disjoint(ranges[i], ranges[j])
      /\ threads.lock = 0 => pool.used = SumSizes(ranges)

\* blocks whose creating call has stored them into the head pointer
Installed ==
    {b \in AllBlocks :
       \A t \in Threads : ~(threads.th[t].new = b
                            /\ threads.th[t].pc \in {"link", "install"})}

\* installed blocks that a walk from the head no longer meets
Leaked == Installed \ Chain(chain, Len(blocks))

\* C18: threads growing one chained pool with nothing coordinating them can
\* leave a newly created block unreachable from the head, or take a range
\* from a block the caller did not create (the witness).  Whatever the
\* interleaving, the chain stays acyclic and ends in NULL, and a block is
\* only ever lost because two blocks were linked in front of the same old
\* head.
C18_RaceLosesBlocks ==
    prog = "chainrace" =>
      /\ EndsInNull(chain, Len(blocks))
      /\ Leaked # {} =>
           \E b \in Leaked : \E c \in AllBlocks \ {b} :
              blocks[b].next = blocks[c].next

\* C18 witness: every call has returned, a block that a call created and
\* installed is unreachable from the head, and no thread is left to free it.
C18_Witness ==
    /\ prog = "chainrace" /\ Quiet
    /\ Leaked # {}
    /\ \E t \in Threads :
          /\ threads.th[t].new \in Leaked
          /\ threads.th[t].tmp # threads.th[t].new

\* C21: after any sequence of tracked_malloc and tracked_free calls,
\* alloc_count (what print_leak_report prints) equals the number of pointers
\* tracked_malloc returned that tracked_free has not released, and it never
\* exceeds MAX_ALLOCS.
C21_CountIsOutstanding ==
    prog = "tracker" =>
      /\ tracker.alloc_count = Cardinality(tracker.heap)
      /\ tracker.alloc_count <= MAX_ALLOCS

\* the C string that starts at cell 0: its length, if it has a terminator
Terminated(mem, size) == \E i \in 0..(size - 1) : mem[i] = NUL
CStrLen(mem) == CHOOSE i \in DOMAIN mem : mem[i] = NUL /\ \A j \in 0..(i - 1) : mem[j] # NUL

Min(a, b) == IF a < b THEN a ELSE b

\* C22: for every source string and every dest_size >= 1 safe_strcpy writes
\* only inside the first dest_size bytes of dest, leaves dest NUL-terminated
\* with length min(strlen(src), dest_size - 1) and content that prefix of
\* src; with a null dest or src or dest_size = 0 it returns NULL and writes
\* nothing.
C22_SafeStrcpy ==
    (prog = "copy" /\ copy.state = "returned") =>
      IF ~copy.dest \/ ~copy.src_given \/ copy.dest_size = 0
        THEN /\ ~copy.result
             /\ copy.written = {}
             /\ copy.mem = copy.before
        ELSE /\ copy.result
             /\ copy.written \subseteq 0..(copy.dest_size - 1)
             /\ \A i \in Cells \ copy.written : copy.mem[i] = copy.before[i]
             /\ Terminated(copy.mem, copy.dest_size)
             /\ CStrLen(copy.mem) = Min(strlen(copy.src), copy.dest_size - 1)
             /\ \A i \in 0..(CStrLen(copy.mem) - 1) : copy.mem[i] = copy.src[i + 1]

\* C22 witness: a source longer than the buffer was copied and truncated
C22_Witness ==
    /\ prog = "copy" /\ copy.state = "returned" /\ copy.result
    /\ copy.dest_size = 2
    /\ strlen(copy.src) > copy.dest_size
    /\ copy.mem[0] = copy.src[1] /\ copy.mem[1] = NUL

\* C23: for an object made by create_ref_counted and used through one handle
\* by any sequence of increase_ref and decrease_ref, ref_count >= 1 while
\* the handle is non-null, the object is freed exactly once, when the count
\* reaches 0 and the handle becomes null, and nothing is freed again.
C23_RefCountLifecycle ==
    (prog = "handle" /\ handle.state = "running") =>
      /\ handle.obj # 0 => handle.ref_count >= 1 /\ handle.frees = 0
      /\ (handle.obj = 0 /\ handle.created) => handle.frees = 1

\* C24: for every initial_capacity >= 0 and every sequence of add_resource
\* calls, count <= capacity and every stored pointer is written at an index
\* below the current capacity of the resources array.
C24_StoresWithinCapacity ==
    (prog = "manager" /\ manager.state = "live") =>
      /\ manager.count <= manager.capacity
      /\ manager.last = "stored" =>
           manager.index < manager.capacity /\ manager.index < manager.slots

\* C25: for a Stack of capacity c >= 1, after any sequence of push and pop,
\* -1 <= top <= c - 1 and the cells 0..top hold the items pushed and not yet
\* popped, oldest first; push on a full stack and pop on an empty stack
\* leave the stack unchanged, the latter returning -1; any other pop returns
\* the most recently pushed item that has not been popped.
C25_StackIsLifo ==
    (prog = "stack" /\ stack.state = "live") =>
      /\ -1 <= stack.top /\ stack.top <= stack.capacity - 1
      /\ stack.top = Len(stack.pushed) - 1
      /\ \A i \in 0..stack.top : stack.data[i] = stack.pushed[i + 1]
      /\ (stack.last = "push" /\ stack.before[2] = stack.capacity - 1) =>
           Fields(stack) = stack.before
      /\ (stack.last = "pop" /\ stack.before[2] = -1) =>
           stack.result = -1 /\ Fields(stack) = stack.before
      /\ (stack.last = "pop" /\ stack.before[2] # -1) =>
           /\ stack.result = stack.before[1][stack.before[2]]
           /\ stack.top = stack.before[2] - 1
           /\ stack.data = stack.before[1]

\* C25 witness: a stack of capacity 2 was full with -1 below 7, and the pop
\* returned 7 and left -1
C25_Witness ==
    /\ prog = "stack" /\ stack.state = "live"
    /\ stack.capacity = 2
    /\ stack.last = "pop"
    /\ stack.before[2] = 1
    /\ stack.before[1][0] = -1 /\ stack.before[1][1] = 7
    /\ stack.result = 7
    /\ stack.pushed = <<-1>>

\* C26: for every sequence of custom_alloc calls with arbitrary sizes the
\* ranges [ptr, ptr + size) returned are pairwise disjoint and lie inside the
\* 1000-byte pool, and at most 10 allocations succeed.
C26_SlotsDisjointInPool ==
    prog = "slots" =>
      /\ slots.allocation_count <= SLOT_COUNT
      /\ \A i \in 1..slots.allocation_count :
           /\ slots.allocated_memory[i] + slots.allocated_size[i] <= SLOT_POOL_BYTES
           /\ \A j \in 1..slots.allocation_count :
                i < j => \/ slots.allocated_memory[i] + slots.allocated_size[i]
                               <= slots.allocated_memory[j]
                         \/ slots.allocated_memory[j] + slots.allocated_size[j]
                               <= slots.allocated_memory[i]

\* the cell that holds the k-th value written in this run
CellOf(k) == (Masked(ring.read_index) + (k - 1 - ring.reads)) % BUFFER_SIZE

\* C27: every buffer access uses an index in 0..7; as long as
\* 0 <= writes - reads <= 8 has held at all times, the k-th read returns the
\* k-th written value and every value written and not yet read is still in
\* the buffer.
C27_RingIsFifo ==
    (prog = "ring" /\ ring.state = "running") =>
      /\ ring.cell \in 0..(BUFFER_SIZE - 1)
      /\ ring.inorder =>
           /\ ring.last = "read" => ring.result = ring.written[ring.reads]
           /\ \A k \in (ring.reads + 1)..Len(ring.written) :
                ring.buffer[CellOf(k)] = ring.written[k]

\* C27 witness: nine values were written, past the turn from cell 7 to
\* cell 0 and past the overflow of write_index, and the second read returned
\* the second value written
C27_Witness ==
    /\ prog = "ring" /\ ring.state = "running" /\ ring.inorder
    /\ ring.last = "read"
    /\ ring.write_index < 0
    /\ ring.reads = 2
    /\ Len(ring.written) = BUFFER_SIZE + 1
    /\ ring.written[1] = 1 /\ ring.written[2] = 2
    /\ ring.result = 2

\* the cells of the grid
Grid == (0..(ROWS - 1)) \X (0..(COLS - 1))

\* the cells of colour prevColor next to a cell of S, added to S
Grown(S) ==
    {c \in Grid :
       \/ c \in S
       \/ /\ screen.orig[c[1]][c[2]] = screen.prevColor
          /\ \E d \in S : \/ (c[1] = d[1] /\ (c[2] = d[2] + 1 \/ c[2] = d[2] - 1))
                          \/ (c[2] = d[2] /\ (c[1] = d[1] + 1 \/ c[1] = d[1] - 1))}

RECURSIVE Closure(_)
Closure(S) ==
    LET T == Grown(S)
    IN IF Cardinality(T) = Cardinality(S) THEN S ELSE Closure(T)

\* the cells 4-connected to the start cell through cells of colour prevColor
Region ==
    IF <<screen.x, screen.y>> \in Grid
       /\ screen.orig[screen.x][screen.y] = screen.prevColor
      THEN Closure({<<screen.x, screen.y>>})
      ELSE {}

\* C28: flood_fill terminates for every start cell and every pair of colours
\* (the recursion never holds more pending calls than there are cells, plus
\* the one that returns at once), and when it has returned exactly the cells
\* of the region of the start cell have colour newColor, all others are
\* unchanged.
C28_FloodFillTerminates ==
    prog = "screen" =>
      /\ Len(screen.frames) <= ROWS * COLS + 1
      /\ screen.state = "done" =>
           \A c \in Grid :
              screen.screen[c[1]][c[2]] =
                 IF c \in Region THEN screen.newColor ELSE screen.orig[c[1]][c[2]]

\* the characters of a string, last first
RECURSIVE Reverse(_)
Reverse(str) == IF str = <<>> THEN <<>> ELSE Reverse(Tail(str)) \o <<Head(str)>>

\* C29: for any sequence of calls with strings of total length below 100,
\* the string returned by the n-th call of reverse_string is exactly the
\* reverse of the n-th argument, whatever the earlier calls were.
C29_ReverseEveryCall ==
    (prog = "rev" /\ rev.calls > 0) => rev.result = Reverse(rev.str)

====
